---- MODULE Spec2Model ----
(***************************************************************************)
(* Model of the Shame-o-Tron maubot plugin (src/shameotron.py): one run of *)
(* the `!shame` command handler.  Host names are sequences of code points  *)
(* so that Python's sorted() on strings can be computed, Python's None and *)
(* optional values are the empty sequence / a one-element sequence.        *)
(***************************************************************************)
EXTENDS Integers, Sequences, FiniteSets, TLC

VARIABLES candidate, joined_members, dead_servers, pc, member_servers,
          joined_calls, message, versions, idx, cur, exc, log

vars == <<candidate, joined_members, dead_servers, pc, member_servers,
          joined_calls, message, versions, idx, cur, exc, log>>

inputs == <<candidate, joined_members, dead_servers>>

(***************************************************************************)
(* Bounds and program constants                                            *)
(***************************************************************************)
MaxMembers == 2

DaySeconds == 86400

ExpiryWarnDays == 30

(***************************************************************************)
(* Python values                                                           *)
(***************************************************************************)
None == <<>>

Some(x) == <<x>>

Range(s) == {s[i] : i \in 1..Len(s)}

\* Python's `<` on str: lexicographic on code points, a proper prefix first.
RECURSIVE StrLess(_, _)
StrLess(a, b) ==
    IF a = <<>> THEN b # <<>>
    ELSE IF b = <<>> THEN FALSE
    ELSE IF Head(a) # Head(b) THEN Head(a) < Head(b)
    ELSE StrLess(Tail(a), Tail(b))

\* sorted(list(S)) for a set of str
RECURSIVE Sorted(_)
Sorted(S) ==
    IF S = {} THEN <<>>
    ELSE LET m == CHOOSE x \in S : \A y \in S \ {x} : StrLess(x, y)
         IN  <<m>> \o Sorted(S \ {m})

(***************************************************************************)
(* Inputs of a run                                                         *)
(***************************************************************************)
\* "a", "ab", "b", "c"
HostA == <<97>>
HostAB == <<97, 98>>
HostB == <<98>>
HostC == <<99>>

UserIDs == { [localpart |-> "u1", server |-> HostA],
             [localpart |-> "u2", server |-> HostA],
             [localpart |-> "u1", server |-> HostAB],
             [localpart |-> "u1", server |-> HostB] }

\* get_joined_members returns a dict keyed by user id: distinct users in
\* the order the homeserver lists them.
JoinedLists ==
    UNION { { s \in [1..n -> UserIDs] : \A i, j \in 1..n : s[i] = s[j] => i = j }
            : n \in 0..MaxMembers }

\* config['dead_servers']: unset (None) or a list of host names
DeadConfigs == { None, Some(<<>>), Some(<<HostAB>>), Some(<<HostB>>),
                 Some(<<HostA, HostC>>) }

\* the raw command argument: absent (None) or a host name
Candidates == { None, Some(HostAB), Some(HostC) }

\* Python truthiness of an optional str / optional list
Truthy(o) == o # None /\ o[1] # <<>>

(***************************************************************************)
(* _load_members and the resolver part of shame_handler                    *)
(***************************************************************************)
\* client.parse_user_id(user) -> (localpart, server)
parse_user_id(user) == <<user.localpart, user.server>>

\* servers.setdefault(server, []).append(user) on an insertion-ordered dict,
\* the dict being a sequence of [key, value] entries
SetDefaultAppend(servers, server, user) ==
    IF \E i \in 1..Len(servers) : servers[i].key = server
    THEN [i \in 1..Len(servers) |->
            IF servers[i].key = server
            THEN [servers[i] EXCEPT !.value = Append(@, user)]
            ELSE servers[i]]
    ELSE Append(servers, [key |-> server, value |-> <<user>>])

RECURSIVE LoadMembersFrom(_, _)
LoadMembersFrom(users, servers) ==
    IF users = <<>> THEN servers
    ELSE LoadMembersFrom(Tail(users),
            SetDefaultAppend(servers, parse_user_id(Head(users))[2], Head(users)))

_load_members(users) == LoadMembersFrom(users, <<>>)

\* iterating / .keys() of the dict
DictKeys(d) == [i \in 1..Len(d) |-> d[i].key]

\* a resolver that applies dead_servers to the candidate as well
ResolveHostsFilterCandidate(cand, users, dead) ==
    LET hosts == IF Truthy(cand) THEN <<cand[1]>> ELSE DictKeys(_load_members(users))
    IN  IF Truthy(dead)
        THEN Sorted(Range(hosts) \ Range(dead[1]))
        ELSE hosts

\* lines 157-170: the value of member_servers, as the sequence the
\* `for host in member_servers` loop iterates
ResolveHosts(cand, users, dead) ==
    IF Truthy(cand)
    THEN <<cand[1]>>
    ELSE LET servers == _load_members(users)
         IN  IF Truthy(dead)
             THEN Sorted(Range(DictKeys(servers)) \ Range(dead[1]))
             ELSE DictKeys(servers)

\* whether line 160 runs
LoadsMembers(cand) == ~Truthy(cand)

\* federation_tester.format(server=host)
FederationTesterURL(host) == [template |-> "federation_tester", server |-> host]

(***************************************************************************)
(* JSON values, and Python's operations on them                            *)
(***************************************************************************)
JNull == [t |-> "null"]

JBool(b) == [t |-> "bool", v |-> b]

JStr(s) == [t |-> "string", v |-> s]

JArray == [t |-> "array", items |-> <<>>]

\* an object keeps its members in document order, as Python's dict does
JObj(pairs) == [t |-> "object", items |-> pairs]

Ok(x) == [exc |-> "", val |-> <<x>>]

Raise(e) == [exc |-> e, val |-> <<>>]

\* bool(v)
JTruthy(v) ==
    CASE v.t = "null" -> FALSE
      [] v.t = "bool" -> v.v
      [] v.t = "string" -> v.v # ""
      [] OTHER -> v.items # <<>>

\* v[k] for a str k
GetItem(v, k) ==
    IF v.t # "object" THEN Raise("TypeError")
    ELSE IF \E i \in 1..Len(v.items) : v.items[i][1] = k
         THEN Ok(v.items[CHOOSE i \in 1..Len(v.items) : v.items[i][1] = k][2])
         ELSE Raise("KeyError")

\* list(v.keys())
KeyList(v) ==
    IF v.t # "object" THEN Raise("AttributeError")
    ELSE Ok([i \in 1..Len(v.items) |-> v.items[i][1]])

\* json.loads(req.text)
json_loads(text) ==
    IF text.valid THEN Ok(text.value) ELSE Raise("JSONDecodeError")

\* f"{version}"
Format(v) ==
    CASE v.t = "string" -> v.v
      [] v.t = "null" -> "None"
      [] v.t = "bool" -> IF v.v THEN "True" ELSE "False"
      [] v.t = "array" -> "[]"
      [] OTHER -> "{...}"

\* s.split(sep) on a string given as a sequence of tokens
RECURSIVE SplitAcc(_, _, _)
SplitAcc(s, sep, part) ==
    IF s = <<>> THEN <<part>>
    ELSE IF Head(s) = sep THEN <<part>> \o SplitAcc(Tail(s), sep, <<>>)
    ELSE SplitAcc(Tail(s), sep, Append(part, Head(s)))

Split(s, sep) == SplitAcc(s, sep, <<>>)

PortNumbers == [p \in {"8448", "443"} |-> IF p = "8448" THEN 8448 ELSE 443]

\* int(port)
IntOf(part) ==
    IF Len(part) = 1 /\ part[1] \in DOMAIN PortNumbers
    THEN Ok(PortNumbers[part[1]])
    ELSE Raise("ValueError")

(***************************************************************************)
(* What the network can answer                                             *)
(***************************************************************************)
Addr1 == <<"203.0.113.5", ":", "8448">>

Addr2 == <<"198.51.100.7", ":", "443">>

AddrV6 == <<"[2001", ":", "db8", ":", ":", "1]", ":", "8448">>

Field(k, opt) == IF opt = None THEN <<>> ELSE <<<<k, opt[1]>>>>

FederationOKOptions == { None, Some(JBool(TRUE)), Some(JBool(FALSE)) }

VersionOptions == { None, Some(JObj(<< <<"version", JStr("1.2.3")>> >>)) }

ConnectionReportsOptions ==
    { None, Some(JNull), Some(JObj(<<>>)),
      Some(JObj(<< <<Addr2, JObj(<<>>)>>, <<Addr1, JObj(<<>>)>> >>)),
      Some(JObj(<< <<AddrV6, JObj(<<>>)>> >>)) }

Body(f, v, c) ==
    JObj(Field("FederationOK", f) \o Field("Version", v) \o Field("ConnectionReports", c))

\* every combination of a present FederationOK with the other fields, bodies
\* without FederationOK, and bodies whose Version has no usable version
ObjectBodies ==
    { Body(f, v, c) : f \in FederationOKOptions \ {None}, v \in VersionOptions,
                      c \in ConnectionReportsOptions }
    \cup { Body(None, None, None),
           Body(None, Some(JObj(<< <<"version", JStr("1.2.3")>> >>)), Some(JObj(<<>>))),
           Body(Some(JBool(TRUE)), Some(JObj(<<>>)), Some(JObj(<<>>))),
           Body(Some(JBool(TRUE)), Some(JNull), Some(JObj(<< <<Addr1, JObj(<<>>)>> >>))) }

Texts == { [valid |-> FALSE, value |-> JNull], [valid |-> TRUE, value |-> JArray] }
         \cup { [valid |-> TRUE, value |-> b] : b \in ObjectBodies }

HttpOutcomes ==
    { [kind |-> "timeout", text |-> None], [kind |-> "connection_error", text |-> None] }
    \cup { [kind |-> "ok", text |-> Some(t)] : t \in Texts }

\* the certificate's notAfter, by calendar day and second of the day
NotAfterSamples == { [day |-> 99, sec |-> 43200], [day |-> 130, sec |-> 0] }

NowSamples == { [day |-> 100, sec |-> 0], [day |-> 100, sec |-> 43200] }

TlsErrors == { "SSLCertVerificationError", "SSLError", "ConnectionRefusedError",
               "timeout" }

TlsOutcomes ==
    { [kind |-> "cert", notAfter |-> Some(c)] : c \in NotAfterSamples }
    \cup { [kind |-> e, notAfter |-> None] : e \in TlsErrors }

\* datetime.strptime(ssl_info['notAfter'], ssl_date_fmt), and datetime.now():
\* a naive datetime, here in seconds
strptime(c) == c.day * DaySeconds + c.sec

\* the values datetime.now() of line 183 can take
Nows == { strptime(n) : n \in NowSamples }

(***************************************************************************)
(* query_homeserver                                                        *)
(***************************************************************************)
\* the `except (...)` clause of lines 129-133
CaughtSSL == { "SSLCertVerificationError", "SSLError", "IndexError" }

\* the `except (...)` clause of line 140
CaughtVersion == { "TypeError", "KeyError" }

\* lines 137-147: the returned dict, or the exception that leaves the call
ReturnValue(version, data, ssl_expiry) ==
    LET v == IF version # None /\ JTruthy(version[1]) THEN Ok(version[1])
             ELSE LET ver == GetItem(data, "Version")
                  IN  IF ver.exc # "" THEN ver ELSE GetItem(ver.val[1], "version")
    IN  IF v.exc = ""
        THEN [exc |-> "", version |-> Some(v.val[1]), ssl_expiry |-> ssl_expiry]
        ELSE IF v.exc \in CaughtVersion
        THEN [exc |-> "", version |-> Some(JStr("[ERROR]")), ssl_expiry |-> ssl_expiry]
        ELSE [exc |-> v.exc, version |-> None, ssl_expiry |-> ssl_expiry]

\* lines 85-96 of get_ssl_expiry: (hostname, int(port)) to connect to
ConnectTarget(addr) ==
    LET parts == Split(addr, ":")
    IN  IF Len(parts) # 2 THEN Raise("ValueError")
        ELSE LET port == IntOf(parts[2])
             IN  IF port.exc # "" THEN port ELSE Ok(<<parts[1], port.val[1]>>)

\* taking the last key instead of the first
LastAddress(data) ==
    LET cr == GetItem(data, "ConnectionReports")
    IN  IF cr.exc # "" THEN cr
        ELSE LET keys == KeyList(cr.val[1])
             IN  IF keys.exc # "" THEN keys
                 ELSE IF keys.val[1] = <<>> THEN Raise("IndexError")
                 ELSE Ok(keys.val[1][Len(keys.val[1])])

\* line 127: addr = list(data['ConnectionReports'].keys())[0]
FirstAddress(data) ==
    LET cr == GetItem(data, "ConnectionReports")
    IN  IF cr.exc # "" THEN cr
        ELSE LET keys == KeyList(cr.val[1])
             IN  IF keys.exc # "" THEN keys
                 ELSE IF keys.val[1] = <<>> THEN Raise("IndexError")
                 ELSE Ok(keys.val[1][1])

\* lines 112-124: version and data once requests.get has returned or raised
AfterRequest(resp) ==
    IF resp.kind = "timeout"
    THEN \* version = '[TIMEOUT]', then req.text with req unbound
         [exc |-> "UnboundLocalError", version |-> Some(JStr("[TIMEOUT]")), data |-> None]
    ELSE IF resp.kind # "ok"
    THEN [exc |-> "ConnectionError", version |-> None, data |-> None]
    ELSE LET data == json_loads(resp.text[1])
         IN  IF data.exc # "" THEN [exc |-> data.exc, version |-> None, data |-> None]
             ELSE LET fok == GetItem(data.val[1], "FederationOK")
                  IN  IF fok.exc # ""
                      THEN [exc |-> fok.exc, version |-> None, data |-> data.val]
                      ELSE [exc |-> "",
                            version |-> IF JTruthy(fok.val[1]) THEN None
                                        ELSE Some(JStr("[OFFLINE]")),
                            data |-> data.val]

Notice(text) == [body |-> text, bullets |-> <<>>]

\* the state of the query_homeserver call in progress or last made, with the
\* answers the network gave it
NoProbe ==
    [host |-> None, stage |-> "none", http |-> "none", text |-> None,
     version |-> None, addr |-> None, server_hostname |-> None,
     connect |-> None, tls |-> "none", result |-> None, now |-> None]

NewProbe(host) == [NoProbe EXCEPT !.host = Some(host), !.stage = "http", !.http = "pending"]

\* what the run did, in order: probes started and ended, report emitted
Event(ev, i, host) == [ev |-> ev, i |-> i, host |-> host]

Init ==
    /\ candidate \in Candidates
    /\ joined_members \in JoinedLists
    /\ dead_servers \in DeadConfigs
    /\ pc = "start"
    /\ member_servers = <<>>
    /\ joined_calls = 0
    /\ message = None
    /\ versions = <<>>
    /\ idx = 1
    /\ cur = NoProbe
    /\ exc = ""
    /\ log = <<>>

(***************************************************************************)
(* shame_handler                                                           *)
(***************************************************************************)
\* lines 156-178: reply, resolve the hosts, first edit, versions = []
ShameHandlerStart ==
    /\ pc = "start"
    /\ member_servers' = ResolveHosts(candidate, joined_members, dead_servers)
    /\ joined_calls' = IF LoadsMembers(candidate) THEN joined_calls + 1 ELSE joined_calls
    /\ message' = Some(Notice("Member list loaded, fetching versions... please wait..."))
    /\ versions' = <<>>
    /\ idx' = 1
    /\ pc' = "loop"
    /\ UNCHANGED <<inputs, cur, exc, log>>

\* a warning that fires at 30 days too
WarningInclusive(ssl_expiry, now) ==
    IF ssl_expiry # None
    THEN LET expiry_days == (ssl_expiry[1] - now) \div DaySeconds
         IN  IF expiry_days <= ExpiryWarnDays
             THEN "(cert expiry in " \o ToString(expiry_days) \o " days!)"
             ELSE ""
    ELSE "(SSL error)"

\* lines 182-189
Warning(ssl_expiry, now) ==
    IF ssl_expiry # None
    THEN LET expiry_days == (ssl_expiry[1] - now) \div DaySeconds
         IN  IF expiry_days < ExpiryWarnDays
             THEN "(cert expiry in " \o ToString(expiry_days) \o " days!)"
             ELSE ""
    ELSE "(SSL error)"

\* a bullet put in front of the list
PrependVersion(vs, host, data, warning) ==
    <<<<host, Format(data.version[1]) \o " " \o warning>>>> \o vs

\* lines 191-193
AppendVersion(vs, host, data, warning) ==
    Append(vs, <<host, Format(data.version[1]) \o " " \o warning>>)

\* lines 198-204
Report(vs) ==
    [body |-> "#### Homeserver versions",
     bullets |-> [i \in 1..Len(vs) |->
                    [host |-> vs[i][1], version |-> vs[i][2],
                     link |-> FederationTesterURL(vs[i][1])]]]

\* the loop index after one iteration
NextIndex(i) == i + 1

\* a loop that ends before its hosts are exhausted
LoopOverEarly(i, hosts) == i >= Len(hosts)

\* the `for` of line 179 is exhausted
LoopOver(i, hosts) == i > Len(hosts)

\* line 179-180 and 112-117: take the next host and issue its HTTP request
IssueRequest ==
    /\ pc = "loop"
    /\ ~LoopOver(idx, member_servers)
    /\ cur' = NewProbe(member_servers[idx])
    /\ log' = Append(log, Event("http_start", idx, Some(member_servers[idx])))
    /\ pc' = "http"
    /\ UNCHANGED <<inputs, member_servers, joined_calls, message, versions, idx, exc>>

\* an exception leaves query_homeserver and shame_handler
Abort(e, probe) ==
    /\ pc' = "aborted"
    /\ exc' = e
    /\ cur' = [probe EXCEPT !.stage = "raised"]
    /\ UNCHANGED <<inputs, member_servers, joined_calls, message, versions, idx>>

\* lines 137-147 and 182-193: query_homeserver returns, the bullet is appended;
\* probe.now keeps the value of datetime.now() when line 185 used it
Complete(probe, data, ssl_expiry, now) ==
    LET r == ReturnValue(probe.version, data, ssl_expiry)
    IN  IF r.exc # "" THEN Abort(r.exc, probe)
        ELSE /\ versions' = AppendVersion(versions, probe.host[1], r, Warning(r.ssl_expiry, now))
             /\ cur' = [probe EXCEPT !.stage = "returned",
                                     !.result = Some([version |-> r.version[1],
                                                      ssl_expiry |-> r.ssl_expiry]),
                                     !.now = IF r.ssl_expiry # None THEN Some(now)
                                             ELSE None]
             /\ idx' = NextIndex(idx)
             /\ pc' = "loop"
             /\ UNCHANGED <<inputs, member_servers, joined_calls, message, exc>>

\* lines 118-128 and 85-96: the HTTP request returns or raises; the body is
\* parsed and the TLS connection, if any, is started
HttpReturn ==
    /\ pc = "http"
    /\ \E resp \in HttpOutcomes :
        LET a == AfterRequest(resp)
            probe == [cur EXCEPT !.http = resp.kind, !.text = resp.text,
                                 !.version = a.version]
            ended == Append(log, Event("http_end", idx, cur.host))
        IN  IF a.exc # "" THEN Abort(a.exc, probe) /\ log' = ended
            ELSE LET addr == FirstAddress(a.data[1])
                 IN  IF addr.exc \in CaughtSSL
                     THEN /\ \E now \in Nows : Complete(probe, a.data[1], None, now)
                          /\ log' = ended
                     ELSE IF addr.exc # "" THEN Abort(addr.exc, probe) /\ log' = ended
                     ELSE LET tgt == ConnectTarget(addr.val[1])
                              called == [probe EXCEPT !.addr = addr.val,
                                                      !.server_hostname = probe.host]
                          IN  IF tgt.exc \in CaughtSSL
                              THEN /\ \E now \in Nows :
                                        Complete(called, a.data[1], None, now)
                                   /\ log' = ended
                              ELSE IF tgt.exc # "" THEN Abort(tgt.exc, called) /\ log' = ended
                              ELSE /\ cur' = [called EXCEPT !.stage = "tls",
                                                            !.connect = tgt.val,
                                                            !.tls = "pending"]
                                   /\ log' = Append(ended, Event("tls_start", idx, cur.host))
                                   /\ pc' = "tls"
                                   /\ UNCHANGED <<inputs, member_servers, joined_calls,
                                                  message, versions, idx, exc>>

\* lines 96-100 and 129-135: the TLS connection completes or fails
TlsReturn ==
    /\ pc = "tls"
    /\ \E out \in TlsOutcomes, now \in Nows :
        LET probe == [cur EXCEPT !.tls = out.kind]
        IN  /\ log' = Append(log, Event("tls_end", idx, cur.host))
            /\ IF out.kind = "cert"
               THEN Complete(probe, json_loads(cur.text[1]).val[1],
                             Some(strptime(out.notAfter[1])), now)
               ELSE IF out.kind \in CaughtSSL
               THEN Complete(probe, json_loads(cur.text[1]).val[1], None, now)
               ELSE Abort(out.kind, probe)

\* lines 195-205: the loop is over, the report replaces the notice
FinalEdit ==
    /\ pc = "loop"
    /\ LoopOver(idx, member_servers)
    /\ message' = Some(Report(versions))
    /\ log' = Append(log, Event("report", idx, None))
    /\ pc' = "done"
    /\ UNCHANGED <<inputs, member_servers, joined_calls, versions, idx, cur, exc>>

Next ==
    \/ ShameHandlerStart
    \/ IssueRequest
    \/ HttpReturn
    \/ TlsReturn
    \/ FinalEdit

Spec == Init /\ [][Next]_vars
(***************************************************************************)
(* Properties                                                              *)
(***************************************************************************)
Finished == cur.stage \in {"returned", "raised"}

\* the bullet appended for the call that has just returned
LastBullet == versions[Len(versions)]

Bullets == message[1].bullets

HasField(v, k) == v.t = "object" /\ \E i \in 1..Len(v.items) : v.items[i][1] = k

FieldOf(v, k) == v.items[CHOOSE i \in 1..Len(v.items) : v.items[i][1] = k][2]

\* the version texts the specification allows for a response body
ExpectedVersions(text) ==
    IF ~text.valid \/ text.value.t # "object" THEN {"[ERROR]"}
    ELSE IF ~HasField(text.value, "FederationOK") THEN {"[OFFLINE]", "[ERROR]"}
    ELSE IF ~JTruthy(FieldOf(text.value, "FederationOK")) THEN {"[OFFLINE]"}
    ELSE IF /\ HasField(text.value, "Version")
            /\ HasField(FieldOf(text.value, "Version"), "version")
            /\ FieldOf(FieldOf(text.value, "Version"), "version").t = "string"
         THEN {FieldOf(FieldOf(text.value, "Version"), "version").v}
         ELSE {"[ERROR]"}

\* the keys of the body's ConnectionReports, in document order
ReportedAddresses(text) ==
    IF /\ text.valid
       /\ HasField(text.value, "ConnectionReports")
       /\ FieldOf(text.value, "ConnectionReports").t = "object"
    THEN [i \in 1..Len(FieldOf(text.value, "ConnectionReports").items) |->
            FieldOf(text.value, "ConnectionReports").items[i][1]]
    ELSE <<>>

\* the body got as far as the certificate stage (line 126)
ReachedCertStage ==
    /\ cur.http = "ok"
    /\ cur.text[1].valid
    /\ HasField(cur.text[1].value, "FederationOK")

\* the exception that ended the run came out of get_ssl_expiry
CertProbeRaised == cur.stage = "raised" /\ cur.addr # None

ProbedHosts == SelectSeq(log, LAMBDA e : e.ev = "http_start")

\* C1: whatever the probes answer, the run is never aborted and ends with
\* a report that lists every requested host.
C1_RunNeverAborted ==
    /\ pc # "aborted"
    /\ pc = "done" => Len(Bullets) = Len(member_servers)

\* C2: the bullets of a final report are, in order, the hosts that entered
\* the probe loop, each once, and every one of them was probed.
C2_BulletsMatchHosts ==
    pc = "done" =>
        /\ Len(Bullets) = Len(member_servers)
        /\ \A i \in 1..Len(Bullets) : Bullets[i].host = member_servers[i]
        /\ \A i, j \in 1..Len(Bullets) : Bullets[i].host = Bullets[j].host => i = j
        /\ Len(ProbedHosts) = Len(Bullets)
        /\ \A i \in 1..Len(Bullets) : ProbedHosts[i].host = Some(Bullets[i].host)

C2_Witness ==
    /\ pc = "done"
    /\ Len(Bullets) >= 2
    /\ ~Truthy(dead_servers)

\* C3: without a candidate the hosts probed are the distinct member hosts
\* minus dead_servers, in ascending order, whatever dead_servers is.
C3_ResolverSorted ==
    (pc # "start" /\ ~Truthy(candidate)) =>
        /\ Range(member_servers) =
              { parse_user_id(u)[2] : u \in Range(joined_members) }
              \ (IF dead_servers = None THEN {} ELSE Range(dead_servers[1]))
        /\ \A i, j \in 1..Len(member_servers) :
              i < j => StrLess(member_servers[i], member_servers[j])

\* C4: an HTTP timeout makes query_homeserver return the Timeout outcome,
\* and the host's bullet shows [TIMEOUT].
C4_TimeoutYieldsTimeout ==
    (cur.http = "timeout" /\ Finished) =>
        /\ cur.stage = "returned"
        /\ cur.result[1].version = JStr("[TIMEOUT]")
        /\ LastBullet = <<cur.host[1], "[TIMEOUT] (SSL error)">>

\* C5: the version outcome is decided by the body alone: Offline when
\* FederationOK is falsy, Version.version when present, Error otherwise,
\* and it is returned, never raised.
C5_VersionOutcome ==
    (cur.http = "ok" /\ Finished /\ ~CertProbeRaised) =>
        /\ cur.stage = "returned"
        /\ Format(cur.result[1].version) \in ExpectedVersions(cur.text[1])

\* C6: a failed certificate probe (refused, timed out, handshake or
\* verification failure, no ConnectionReports entry) gives ssl_expiry None,
\* the version outcome unchanged and the warning (SSL error).
C6_CertFailureDegrades ==
    (/\ Finished
     /\ ReachedCertStage
     /\ \/ cur.tls \in TlsErrors
        \/ ~HasField(cur.text[1].value, "ConnectionReports")
        \/ FieldOf(cur.text[1].value, "ConnectionReports") = JObj(<<>>)) =>
        /\ cur.stage = "returned"
        /\ cur.result[1].ssl_expiry = None
        /\ Format(cur.result[1].version) \in ExpectedVersions(cur.text[1])
        /\ LastBullet = <<cur.host[1], Format(cur.result[1].version) \o " (SSL error)">>

\* C7: the warning depends on the certificate result and now only: the day
\* count (negative when expired) below 30 days, empty from 30 days on,
\* (SSL error) without an expiry.
C7_WarningFromExpiry ==
    cur.stage = "returned" =>
        LET r == cur.result[1]
            v == Format(r.version)
            left == r.ssl_expiry[1] - cur.now[1]
            days == CHOOSE d \in -2..31 :
                        d * DaySeconds <= left /\ left < (d + 1) * DaySeconds
        IN  /\ LastBullet[1] = cur.host[1]
            /\ r.ssl_expiry = None => LastBullet[2] = v \o " (SSL error)"
            /\ (r.ssl_expiry # None /\ left < 30 * DaySeconds) =>
                  LastBullet[2] = v \o " (cert expiry in " \o ToString(days) \o " days!)"
            /\ (r.ssl_expiry # None /\ left >= 30 * DaySeconds) =>
                  LastBullet[2] = v \o " "

C7_Witness ==
    /\ cur.stage = "returned"
    /\ cur.result[1].ssl_expiry # None
    /\ cur.result[1].ssl_expiry[1] < cur.now[1]
    /\ LastBullet[2] = "[OFFLINE] (cert expiry in -1 days!)"

\* C8: with a candidate the hosts probed are exactly [candidate]; the room
\* members are not loaded and dead_servers does not filter the candidate.
C8_CandidateOnly ==
    (pc # "start" /\ Truthy(candidate)) =>
        /\ member_servers = <<candidate[1]>>
        /\ joined_calls = 0
        /\ \A k \in 1..Len(log) : log[k].ev = "report" \/ log[k].host = candidate
        /\ pc = "done" => (Len(Bullets) = 1 /\ Bullets[1].host = candidate[1])

C8_Witness ==
    /\ pc = "done"
    /\ Truthy(candidate)
    /\ Truthy(dead_servers)
    /\ candidate[1] \in Range(dead_servers[1])
    /\ joined_members # <<>>
    /\ Bullets[1].host = candidate[1]

\* C9: the probes run one at a time in resolver order: a host's HTTP
\* request, then its certificate probe, then the next host; the report
\* comes after the last host's probes.
C9_Sequential ==
    /\ \A k \in 1..Len(log) :
        LET e == log[k]
        IN  /\ e.ev # "report" => e.host = Some(member_servers[e.i])
            /\ e.ev = "http_start" =>
                  IF k = 1 THEN e.i = 1
                  ELSE /\ log[k-1].ev \in {"http_end", "tls_end"}
                       /\ e.i = log[k-1].i + 1
            /\ e.ev = "http_end" => (k > 1 /\ log[k-1].ev = "http_start" /\ log[k-1].i = e.i)
            /\ e.ev = "tls_start" => (k > 1 /\ log[k-1].ev = "http_end" /\ log[k-1].i = e.i)
            /\ e.ev = "tls_end" => (k > 1 /\ log[k-1].ev = "tls_start" /\ log[k-1].i = e.i)
            /\ e.ev = "report" =>
                  IF k = 1 THEN member_servers = <<>>
                  ELSE /\ log[k-1].ev \in {"http_end", "tls_end"}
                       /\ log[k-1].i = Len(member_servers)
            /\ Cardinality({ j \in 1..k : log[j].ev \in {"http_start", "tls_start"} })
               - Cardinality({ j \in 1..k : log[j].ev \in {"http_end", "tls_end"} })
               \in {0, 1}
    /\ pc = "done" <=> (log # <<>> /\ log[Len(log)].ev = "report")

C9_Witness ==
    /\ pc = "done"
    /\ Len(member_servers) >= 2
    /\ \E k \in 1..Len(log) : log[k].ev = "tls_end" /\ log[k].i = 1

\* C10 as stated: a TLS connection is opened only for a host whose
\* FederationOK is truthy and whose response has a ConnectionReports
\* address, and it targets the first key with the host as server name.
C10_OnlyWhenFederationOK ==
    cur.tls # "none" =>
        /\ ReachedCertStage
        /\ JTruthy(FieldOf(cur.text[1].value, "FederationOK"))
        /\ ReportedAddresses(cur.text[1]) # <<>>
        /\ cur.addr = Some(ReportedAddresses(cur.text[1])[1])
        /\ cur.server_hostname = cur.host

\* C10 amended: a TLS connection is opened only for a parsed response with
\* a ConnectionReports address, whether FederationOK is truthy or not; it
\* targets the first key with the host as server name, and a host with a
\* falsy FederationOK and an address:port first key is probed too.
C10_ProbeTargetsFirstAddress ==
    /\ cur.tls # "none" =>
        /\ ReachedCertStage
        /\ ReportedAddresses(cur.text[1]) # <<>>
        /\ cur.addr = Some(ReportedAddresses(cur.text[1])[1])
        /\ cur.server_hostname = cur.host
        /\ cur.connect = Some(<<<<cur.addr[1][1]>>, PortNumbers[cur.addr[1][3]]>>)
    /\ (/\ cur.stage \in {"tls", "returned", "raised"}
        /\ ReachedCertStage
        /\ ReportedAddresses(cur.text[1]) # <<>>
        /\ Len(ReportedAddresses(cur.text[1])[1]) = 3) => cur.tls # "none"

C10_Witness ==
    /\ cur.stage = "returned"
    /\ cur.tls = "cert"
    /\ cur.result[1].version = JStr("[OFFLINE]")
    /\ cur.addr = Some(Addr2)
====
